---------------------------- MODULE Spec2Model ----------------------------
(***************************************************************************)
(* A model of the MAX7219 dot-matrix driver (src/src/lib.rs).  One MAX7219 *)
(* value drives a chain of num_devices chips through a chip-select pin     *)
(* (cs) and an SPI bus.  Every public async function is modelled step by   *)
(* step: one step per cs.set_low / cs.set_high call and one step per       *)
(* spi.transfer (the only await point, inside shift_out).  A transfer or a *)
(* pin call may fail, and a future suspended in a transfer may be dropped. *)
(***************************************************************************)
EXTENDS Integers, Sequences, FiniteSets, TLC

\* ------------------------------------------------------------- bounds ----
\* Chains of 1..MaxDevices chips.
MaxDevices == 2
\* Strings of 0..MaxTextLen bytes.
MaxTextLen == 2
\* Pixel offsets -MaxX..MaxX.
MaxX == 9
\* line_index arguments 0..MaxLine (8 and above are invalid).
MaxLine == 9
\* Failures (transfer errors, pin errors, dropped futures) injected in one run.
MaxFaults == 1
\* rotate_90_clockwise is applied to the matrices with at most MaxSetBits bits
\* set and to their complements.
MaxSetBits == 1

\* ------------------------------------------------------------- inputs ----
DeviceCounts == 1..MaxDevices
LineIndexes == 0..MaxLine
DeviceIndexes == 0..MaxDevices
XPositions == (0 - MaxX)..MaxX
PayloadBytes == {85, 170}
DataBytes == {0, 129}
RawRegisters == 0..15
TextBytes == {65, 66}

SeqsUpTo(S, n) == UNION {[1..k -> S] : k \in 0..n}

\* ------------------------------------------------------------ program ----
\* enum Command, with its discriminants
\* mutant: DisplayTest numbered right after OnOff
Command_contiguous ==
    [Noop |-> 0, Digit0 |-> 1, Digit1 |-> 2, Digit2 |-> 3, Digit3 |-> 4,
     Digit4 |-> 5, Digit5 |-> 6, Digit6 |-> 7, Digit7 |-> 8, DecodeMode |-> 9,
     Intensity |-> 10, ScanLimit |-> 11, OnOff |-> 12, DisplayTest |-> 13]
Command ==
    [Noop |-> 0, Digit0 |-> 1, Digit1 |-> 2, Digit2 |-> 3, Digit3 |-> 4,
     Digit4 |-> 5, Digit5 |-> 6, Digit6 |-> 7, Digit7 |-> 8, DecodeMode |-> 9,
     Intensity |-> 10, ScanLimit |-> 11, OnOff |-> 12, DisplayTest |-> 15]

CommandNames == DOMAIN Command

\* The glyph table of font.rs: 8 row bytes per byte code; glyph 0 is blank.
CP437FONT(c) ==
    CASE c = 65 -> <<129, 66, 36, 24, 255, 1, 128, 60>>
      [] c = 66 -> <<255, 128, 1, 170, 85, 195, 126, 153>>
      [] OTHER  -> <<0, 0, 0, 0, 0, 0, 0, 0>>

\* u8 arithmetic
Pow2(n) == IF n <= 0 THEN 1 ELSE 2 ^ n
Shl8(b, k) == (b * Pow2(k)) % 256
Shr8(b, k) == b \div Pow2(k)

RECURSIVE XorN(_, _, _)
XorN(a, b, n) ==
    IF n = 0 THEN 0
    ELSE (((a % 2) + (b % 2)) % 2) + 2 * XorN(a \div 2, b \div 2, n - 1)

Xor8(a, b) == XorN(a, b, 8)

\* Rust's `/` and `%` on i32 truncate toward zero.
TruncDiv(a, b) == IF a >= 0 THEN a \div b ELSE 0 - ((0 - a) \div b)
TruncRem(a, b) == a - b * TruncDiv(a, b)

is_in_range(len, i) == i >= 0 /\ i < len

\* get_byte_at: the row byte of a glyph shifted by shift_by_num_bits pixels,
\* completed from the neighbouring character.  string is 1-indexed here, so
\* string[k] of the source is string[k + 1].
GlyphAt(string, index) ==
    IF is_in_range(Len(string), index) THEN CP437FONT(string[index + 1])
    ELSE CP437FONT(0)

get_byte_at(string, string_index, line_index, shift_by_num_bits) ==
    LET left   == GlyphAt(string, string_index - 1)
        middle == GlyphAt(string, string_index)
        right  == GlyphAt(string, string_index + 1)
    IN  IF shift_by_num_bits = 0 THEN middle[line_index + 1]
        ELSE IF shift_by_num_bits < 0
        THEN LET k == 0 - shift_by_num_bits
             IN  Xor8(Shr8(middle[line_index + 1], k),
                      Shl8(right[line_index + 1], 8 - k))
        ELSE LET k == shift_by_num_bits
             IN  Xor8(Shl8(middle[line_index + 1], k),
                      Shr8(left[line_index + 1], 8 - k))

\* write_str_at_pos: the decomposition of x_pos
\* mutant: a remainder that is never negative
shift_by_bits_floor(x_pos) == x_pos % 8
shift_by_bits(x_pos) == TruncRem(x_pos, 8)
\* mutant: floor division
start_string_index_floor(x_pos) == x_pos \div 8
start_string_index(x_pos) == TruncDiv(x_pos, 8)

\* write_str_at_pos: the character a chip shows
\* mutant: the string is not written backwards
string_index_forwards(n, chip_index, start) == chip_index - start
string_index(n, chip_index, start) == n - chip_index - 1 - start

\* write_str_at_pos: the data byte sent to chip_index on line_index
\* mutant: the range check excludes string_index = length
StrData_strict(n, string, x_pos, chip_index, line_index) ==
    LET si == string_index(n, chip_index, start_string_index(x_pos))
    IN  IF si >= 0 /\ si < Len(string)
        THEN get_byte_at(string, si, line_index, shift_by_bits(x_pos))
        ELSE 0
StrData(n, string, x_pos, chip_index, line_index) ==
    LET si == string_index(n, chip_index, start_string_index(x_pos))
    IN  IF si >= 0 /\ si <= Len(string)
        THEN get_byte_at(string, si, line_index, shift_by_bits(x_pos))
        ELSE 0

\* write_line_raw: the two validations and the register of a line
\* mutant: line_index 8 is accepted
ValidLineIndex_inclusive(line_index) == line_index <= 8
ValidLineIndex(line_index) == line_index < 8
\* mutant: a short payload is accepted
ValidPayloadLength_at_most(payload, n) == Len(payload) <= n
ValidPayloadLength(payload, n) == Len(payload) = n
\* mutant: the register is the line index itself
LineRegister_no_offset(line_index) == line_index
LineRegister(line_index) == line_index + 1

\* write_device_raw: the iteration counts of the two padding loops
\* (device_index..num_devices - 1 and 0..device_index)
\* mutant: the two padding loops are swapped
SkipAfterCount_swapped(n, device_index) == device_index
\* mutant: the distance to the last chip, whichever side it is on
SkipAfterCount_distance(n, device_index) ==
    IF n - 1 > device_index THEN n - 1 - device_index
    ELSE device_index - (n - 1)
SkipAfterCount(n, device_index) ==
    IF n - 1 > device_index THEN n - 1 - device_index ELSE 0
\* mutant: the second padding loop runs 0..=device_index
SkipBeforeCount_inclusive(device_index) == device_index + 1
SkipBeforeCount(device_index) == device_index

\* clear_all: the registers 1..9 (exclusive) and the data byte written
\* mutant: the loop starts at the no-op register
ClearFirstRegister_noop == 1 - 1
ClearFirstRegister == 1
ClearEndRegister == 9
ClearData(register) == 0

\* ------------------------------------------------------------- events ----
Low == [ev |-> "cs", v |-> 0]
High == [ev |-> "cs", v |-> 1]
Byte(b) == [ev |-> "spi", v |-> b]

\* -------------------------------------------------------------- state ----
VARIABLES
    num_devices,  \* MAX7219.num_devices
    cs,           \* level of the chip-select pin: "high" (idle) or "low"
    fn,           \* the function in flight, "none" when the driver is idle
    pc,           \* its position
    half,         \* 0: the next transfer is a pair's first byte, 1: its second
    i,            \* index of the innermost loop
    row,          \* index of the outer loop (register / line_index)
    args,         \* arguments of the current or last call
    trace,        \* pin and bus events of the current or last call
    result,       \* "pending", or what the last call returned
    sinceLatch,   \* bytes transferred since cs last went high
    faults,       \* failures injected so far
    observe,      \* whether the chain's registers are being recorded
    shiftreg,     \* the chain's shift register: the last 2 * num_devices bytes
    latched,      \* what the chips loaded at the last rising edge of cs
    prev,         \* how the previous call ended (recorded with the registers)
    matrix0,      \* rotate_90_clockwise: the matrix first passed in
    matrix,       \* the matrix after `turns` applications
    turns

hwVars == <<observe, shiftreg, latched, prev>>
rotVars == <<matrix0, matrix, turns>>

vars == <<num_devices, cs, fn, pc, half, i, row, args, trace, result,
          sinceLatch, faults, hwVars, rotVars>>

\* The chain as the chips see it: every transferred byte is shifted in at one
\* end of a 2 * num_devices byte shift register and the oldest byte falls off
\* the other end; a rising edge of cs loads the register into the chips.
ZeroBytes(n) == [k \in 1..n |-> 0]
ShiftIn(reg, value) == Append(Tail(reg), value)

ChainShift(value) ==
    /\ shiftreg' = IF observe THEN ShiftIn(shiftreg, value) ELSE shiftreg
    /\ UNCHANGED <<observe, latched, prev>>

ChainLatch ==
    /\ latched' = IF observe THEN shiftreg ELSE latched
    /\ UNCHANGED <<observe, shiftreg, prev>>

NoPrev == [result |-> "none", bytes |-> 0]
ZeroMatrix == <<0, 0, 0, 0, 0, 0, 0, 0>>

NoArgs ==
    [op |-> "none", command |-> "none", register |-> 0, data |-> 0, line_index |-> 0,
     payload |-> <<>>, device_index |-> 0, s |-> <<>>, x_pos |-> 0]

\* MAX7219::new stores the pin and num_devices and drives nothing: the pin is
\* at its idle level (high, deasserted) and no byte has been sent.
Init ==
    /\ num_devices \in DeviceCounts
    /\ cs = "high"
    /\ fn = "none"
    /\ pc = "idle"
    /\ half = 0
    /\ i = 0
    /\ row = 0
    /\ args = NoArgs
    /\ trace = <<>>
    /\ result = "none"
    /\ sinceLatch = 0
    /\ faults = 0
    /\ observe = FALSE
    /\ shiftreg = ZeroBytes(2 * num_devices)
    /\ latched = ZeroBytes(2 * num_devices)
    /\ prev = NoPrev
    /\ matrix0 = ZeroMatrix /\ matrix = ZeroMatrix /\ turns = 0

\* ------------------------------------------------------------ helpers ----
\* no call is in flight and the last result has been taken by the caller
Idle == fn = "none" /\ result = "none"

Goto(p, h, k, r) ==
    /\ pc' = p /\ half' = h /\ i' = k /\ row' = r
    /\ UNCHANGED <<fn, result, rotVars>>

\* the function returns r to its caller
Return(r) ==
    /\ fn' = "none" /\ pc' = "idle" /\ half' = 0 /\ i' = 0 /\ row' = 0
    /\ result' = r
    /\ UNCHANGED rotVars

\* a `?` that propagates a failure
Fail(r) ==
    /\ faults < MaxFaults
    /\ faults' = faults + 1
    /\ Return(r)
    /\ UNCHANGED <<num_devices, cs, args, trace, sinceLatch, hwVars>>

\* entry of a public function
Enter(f, a, r) ==
    /\ Idle
    /\ fn' = f /\ pc' = "set_low" /\ half' = 0 /\ i' = 0 /\ row' = r
    /\ args' = a /\ trace' = <<>> /\ result' = "pending"
    /\ UNCHANGED <<num_devices, cs, sinceLatch, faults, hwVars, rotVars>>

\* mutant: the error of set_low is dropped and the function goes on
set_low_unchecked(p, h, k, r) ==
    \/ /\ cs' = "low"
       /\ trace' = Append(trace, Low)
       /\ Goto(p, h, k, r)
       /\ UNCHANGED <<num_devices, args, sinceLatch, faults, hwVars>>
    \/ /\ faults < MaxFaults
       /\ faults' = faults + 1
       /\ Goto(p, h, k, r)
       /\ UNCHANGED <<num_devices, cs, args, trace, sinceLatch, hwVars>>

\* self.cs.set_low().map_err(Error::Pin)?
set_low(p, h, k, r) ==
    \/ /\ cs' = "low"
       /\ trace' = Append(trace, Low)
       /\ Goto(p, h, k, r)
       /\ UNCHANGED <<num_devices, args, sinceLatch, faults, hwVars>>
    \/ Fail("Pin")

\* self.cs.set_high().map_err(Error::Pin)?, followed by `next`
set_high_then(p, h, k, r) ==
    \/ /\ cs' = "high"
       /\ trace' = Append(trace, High)
       /\ sinceLatch' = 0
       /\ ChainLatch
       /\ Goto(p, h, k, r)
       /\ UNCHANGED <<num_devices, args, faults>>
    \/ Fail("Pin")

\* self.cs.set_high().map_err(Error::Pin)?; Ok(())
set_high_return ==
    \/ /\ cs' = "high"
       /\ trace' = Append(trace, High)
       /\ sinceLatch' = 0
       /\ ChainLatch
       /\ Return("Ok")
       /\ UNCHANGED <<num_devices, args, faults>>
    \/ Fail("Pin")

\* mutant: the error of a transfer is dropped and the function goes on
shift_out_unchecked(value, p, h, k, r) ==
    \/ /\ trace' = Append(trace, Byte(value))
       /\ sinceLatch' = sinceLatch + 1
       /\ ChainShift(value)
       /\ Goto(p, h, k, r)
       /\ UNCHANGED <<num_devices, cs, args, faults>>
    \/ /\ faults < MaxFaults
       /\ faults' = faults + 1
       /\ Goto(p, h, k, r)
       /\ UNCHANGED <<num_devices, cs, args, trace, sinceLatch, hwVars>>

\* self.shift_out(spi, value).await?
shift_out(value, p, h, k, r) ==
    \/ /\ trace' = Append(trace, Byte(value))
       /\ sinceLatch' = sinceLatch + 1
       /\ ChainShift(value)
       /\ Goto(p, h, k, r)
       /\ UNCHANGED <<num_devices, cs, args, faults>>
    \/ Fail("Spi")

\* a validation error: the function returns before touching the pin or the bus
Reject(a, r) ==
    /\ Idle
    /\ args' = a /\ trace' = <<>>
    /\ Return(r)
    /\ UNCHANGED <<num_devices, cs, sinceLatch, faults, hwVars>>

\* ------------------------------------------------------ write_raw_all ----
\* write_command_all passes `command as u8` on to write_raw_all
Call_write_command_all(command, data) ==
    Enter("write_raw_all",
          [NoArgs EXCEPT !.op = "write_command_all", !.command = command,
                         !.register = Command[command], !.data = data], 0)

Call_write_raw_all(register, data) ==
    Enter("write_raw_all",
          [NoArgs EXCEPT !.op = "write_raw_all", !.register = register,
                         !.data = data], 0)

write_raw_all_set_low ==
    /\ fn = "write_raw_all" /\ pc = "set_low"
    /\ set_low(IF num_devices > 0 THEN "loop" ELSE "set_high", 0, 0, 0)

write_raw_all_shift_out ==
    /\ fn = "write_raw_all" /\ pc = "loop"
    /\ IF half = 0
       THEN shift_out(args.register, "loop", 1, i, 0)
       ELSE shift_out(args.data,
                      IF i + 1 < num_devices THEN "loop" ELSE "set_high",
                      0, IF i + 1 < num_devices THEN i + 1 ELSE 0, 0)

write_raw_all_set_high ==
    /\ fn = "write_raw_all" /\ pc = "set_high"
    /\ set_high_return

\* ---------------------------------------------------------- clear_all ----
Call_clear_all ==
    Enter("clear_all", [NoArgs EXCEPT !.op = "clear_all"], ClearFirstRegister)

clear_all_set_low ==
    /\ fn = "clear_all" /\ pc = "set_low"
    /\ set_low(IF num_devices > 0 THEN "loop" ELSE "set_high", 0, 0, row)

clear_all_shift_out ==
    /\ fn = "clear_all" /\ pc = "loop"
    /\ IF half = 0
       THEN shift_out(row, "loop", 1, i, row)
       ELSE shift_out(ClearData(row),
                      IF i + 1 < num_devices THEN "loop" ELSE "set_high",
                      0, IF i + 1 < num_devices THEN i + 1 ELSE 0, row)

clear_all_set_high ==
    /\ fn = "clear_all" /\ pc = "set_high"
    /\ IF row + 1 < ClearEndRegister
       THEN set_high_then("set_low", 0, 0, row + 1)
       ELSE set_high_return

\* ----------------------------------------------------- write_line_raw ----
Call_write_line_raw(line_index, payload) ==
    LET a == [NoArgs EXCEPT !.op = "write_line_raw",
                            !.line_index = line_index, !.payload = payload]
    IN  IF ~ValidLineIndex(line_index) THEN Reject(a, "InvalidLineIndex")
        ELSE IF ~ValidPayloadLength(payload, num_devices)
        THEN Reject(a, "InvalidPayloadLength")
        ELSE Enter("write_line_raw", a, 0)

write_line_raw_set_low ==
    /\ fn = "write_line_raw" /\ pc = "set_low"
    /\ set_low(IF Len(args.payload) > 0 THEN "loop" ELSE "set_high", 0, 0, 0)

write_line_raw_shift_out ==
    /\ fn = "write_line_raw" /\ pc = "loop"
    /\ IF half = 0
       THEN shift_out(LineRegister(args.line_index), "loop", 1, i, 0)
       ELSE shift_out(args.payload[i + 1],
                      IF i + 1 < Len(args.payload) THEN "loop" ELSE "set_high",
                      0, IF i + 1 < Len(args.payload) THEN i + 1 ELSE 0, 0)

write_line_raw_set_high ==
    /\ fn = "write_line_raw" /\ pc = "set_high"
    /\ set_high_return

\* --------------------------------------------------- write_device_raw ----
Call_write_device_raw(device_index, register, data) ==
    Enter("write_device_raw",
          [NoArgs EXCEPT !.op = "write_device_raw",
                         !.device_index = device_index,
                         !.register = register, !.data = data], 0)

write_device_raw_set_low ==
    /\ fn = "write_device_raw" /\ pc = "set_low"
    /\ set_low(IF SkipAfterCount(num_devices, args.device_index) > 0
               THEN "skip_after" ELSE "write", 0, 0, 0)

\* for _ in device_index..self.num_devices - 1
write_device_raw_skip_after ==
    /\ fn = "write_device_raw" /\ pc = "skip_after"
    /\ LET more == i + 1 < SkipAfterCount(num_devices, args.device_index)
       IN  IF half = 0
           THEN shift_out(0, "skip_after", 1, i, 0)
           ELSE shift_out(0, IF more THEN "skip_after" ELSE "write",
                          0, IF more THEN i + 1 ELSE 0, 0)

\* write one line
write_device_raw_write ==
    /\ fn = "write_device_raw" /\ pc = "write"
    /\ IF half = 0
       THEN shift_out(args.register, "write", 1, 0, 0)
       ELSE shift_out(args.data,
                      IF SkipBeforeCount(args.device_index) > 0
                      THEN "skip_before" ELSE "set_high", 0, 0, 0)

\* for _ in 0..device_index
write_device_raw_skip_before ==
    /\ fn = "write_device_raw" /\ pc = "skip_before"
    /\ LET more == i + 1 < SkipBeforeCount(args.device_index)
       IN  IF half = 0
           THEN shift_out(0, "skip_before", 1, i, 0)
           ELSE shift_out(0, IF more THEN "skip_before" ELSE "set_high",
                          0, IF more THEN i + 1 ELSE 0, 0)

write_device_raw_set_high ==
    /\ fn = "write_device_raw" /\ pc = "set_high"
    /\ set_high_return

\* --------------------------------------------------- write_str_at_pos ----
Call_write_str_at_pos(s, x_pos) ==
    Enter("write_str_at_pos",
          [NoArgs EXCEPT !.op = "write_str_at_pos", !.s = s, !.x_pos = x_pos], 0)

write_str_at_pos_set_low ==
    /\ fn = "write_str_at_pos" /\ pc = "set_low"
    /\ set_low(IF num_devices > 0 THEN "loop" ELSE "set_high", 0, 0, row)

write_str_at_pos_shift_out ==
    /\ fn = "write_str_at_pos" /\ pc = "loop"
    /\ IF half = 0
       THEN shift_out(row + 1, "loop", 1, i, row)
       ELSE shift_out(StrData(num_devices, args.s, args.x_pos, i, row),
                      IF i + 1 < num_devices THEN "loop" ELSE "set_high",
                      0, IF i + 1 < num_devices THEN i + 1 ELSE 0, row)

write_str_at_pos_set_high ==
    /\ fn = "write_str_at_pos" /\ pc = "set_high"
    /\ IF row + 1 < 8
       THEN set_high_then("set_low", 0, 0, row + 1)
       ELSE set_high_return

\* ------------------------------------------------------- cancellation ----
\* The caller drops the future while it is suspended in spi.transfer, the
\* only await point.  Nothing of the function runs any more: no Drop
\* implementation releases the pin.  The interrupted transfer is not counted
\* as transmitted.
Suspended == fn # "none" /\ pc \notin {"set_low", "set_high"}

Cancel ==
    /\ Suspended
    /\ faults < MaxFaults
    /\ faults' = faults + 1
    /\ Return("cancelled")
    /\ UNCHANGED <<num_devices, cs, args, trace, sinceLatch, hwVars>>

\* The caller takes the Result of the call that returned; the record of that
\* call (args, trace, result) ends here, the pin and the chain stay as they are.
TakeResult ==
    /\ fn = "none" /\ result # "none"
    /\ args' = NoArgs /\ trace' = <<>> /\ result' = "none"
    /\ prev' = IF observe THEN [result |-> result, bytes |-> sinceLatch] ELSE prev
    /\ UNCHANGED <<num_devices, cs, fn, pc, half, i, row, sinceLatch, faults,
                   observe, shiftreg, latched, rotVars>>

\* ---------------------------------------------------------- rotate.rs ----
\* mutant: bit 7 is never seen
is_bit_set_short(byte, n) ==
    IF n < 7 THEN (byte \div (2 ^ n)) % 2 = 1 ELSE FALSE
\* byte & (1 << n) != 0
is_bit_set(byte, n) ==
    IF n < 8 THEN (byte \div (2 ^ n)) % 2 = 1 ELSE FALSE

\* bitwise OR of two bytes
RECURSIVE BitOrN(_, _, _)
BitOrN(a, b, n) ==
    IF n = 0 THEN 0
    ELSE (IF (a % 2) + (b % 2) > 0 THEN 1 ELSE 0)
         + 2 * BitOrN(a \div 2, b \div 2, n - 1)

\* mutant: the row is not mirrored (a transposition)
RotatedRow_transposed(j) == j
\* the row of `rotated` that bit j of a line goes to: rotated[7 - j]
RotatedRow(j) == 7 - j

\* What the loops have accumulated in rotated[7 - j] once the first n lines
\* of the buffer are done: line ii contributes mask = 1 << ii when its bit j
\* is set, and contributions are ORed.
RECURSIVE RotatedByte(_, _, _)
RotatedByte(buffer, j, n) ==
    IF n = 0 THEN 0
    ELSE LET ii == n - 1
             mask == IF is_bit_set(buffer[ii + 1], j) THEN (2 ^ ii) % 256 ELSE 0
         IN  BitOrN(RotatedByte(buffer, j, n - 1), mask, 8)

\* rotated starts as [0; 8]; row r of the result is written by the bit
\* positions j with 7 - j = r.
rotate_90_clockwise(buffer) ==
    [r \in 1..8 |->
        LET js == {j \in 0..7 : RotatedRow(j) + 1 = r}
        IN  IF js = {} THEN 0 ELSE RotatedByte(buffer, CHOOSE j \in js : TRUE, 8)]

\* the matrix whose set bits are S, bit 8 * r + j being bit j of row r
RECURSIVE RowOfBits(_, _, _)
RowOfBits(S, r, j) ==
    IF j = 8 THEN 0
    ELSE (IF 8 * r + j \in S THEN 2 ^ j ELSE 0) + RowOfBits(S, r, j + 1)

MatrixOfBits(S) == [r \in 1..8 |-> RowOfBits(S, r - 1, 0)]
Complement(m) == [r \in 1..8 |-> 255 - m[r]]

SparseMatrices ==
    {ZeroMatrix} \cup
    {MatrixOfBits({f[k] : k \in 1..MaxSetBits}) : f \in [1..MaxSetBits -> 0..63]}

RotInputs == SparseMatrices \cup {Complement(m) : m \in SparseMatrices}

\* a caller that rotates one matrix up to four times
RotInit ==
    /\ num_devices = 1
    /\ cs = "high" /\ fn = "none" /\ pc = "idle"
    /\ half = 0 /\ i = 0 /\ row = 0
    /\ args = NoArgs /\ trace = <<>> /\ result = "none"
    /\ sinceLatch = 0 /\ faults = 0
    /\ observe = FALSE
    /\ shiftreg = ZeroBytes(2) /\ latched = ZeroBytes(2) /\ prev = NoPrev
    /\ matrix0 \in RotInputs
    /\ matrix = matrix0
    /\ turns = 0

Rotate ==
    /\ turns < 4
    /\ matrix' = rotate_90_clockwise(matrix)
    /\ turns' = turns + 1
    /\ UNCHANGED <<num_devices, cs, fn, pc, half, i, row, args, trace, result,
                   sinceLatch, faults, hwVars, matrix0>>

RotNext == Rotate

RotSpec == RotInit /\ [][RotNext]_vars

\* --------------------------------------------------------------- spec ----
Next ==
    \/ Idle /\ \E c \in CommandNames, d \in DataBytes : Call_write_command_all(c, d)
    \/ Idle /\ \E r \in RawRegisters, d \in DataBytes : Call_write_raw_all(r, d)
    \/ write_raw_all_set_low
    \/ write_raw_all_shift_out
    \/ write_raw_all_set_high
    \/ Idle /\ Call_clear_all
    \/ clear_all_set_low
    \/ clear_all_shift_out
    \/ clear_all_set_high
    \/ Idle /\ \E l \in LineIndexes, p \in SeqsUpTo(PayloadBytes, MaxDevices + 1) :
          Call_write_line_raw(l, p)
    \/ write_line_raw_set_low
    \/ write_line_raw_shift_out
    \/ write_line_raw_set_high
    \/ Idle /\ \E x \in DeviceIndexes, r \in RawRegisters, d \in DataBytes :
          Call_write_device_raw(x, r, d)
    \/ write_device_raw_set_low
    \/ write_device_raw_skip_after
    \/ write_device_raw_write
    \/ write_device_raw_skip_before
    \/ write_device_raw_set_high
    \/ Idle /\ \E s \in SeqsUpTo(TextBytes, MaxTextLen), x \in XPositions :
          Call_write_str_at_pos(s, x)
    \/ write_str_at_pos_set_low
    \/ write_str_at_pos_shift_out
    \/ write_str_at_pos_set_high
    \/ Cancel
    \/ TakeResult

Spec == Init /\ [][Next]_vars

\* ----------------------------------------------------------- recovery ----
\* The same driver with the chain's registers recorded, under a caller that
\* sees at most one failure and draws its calls from a few values per
\* operation.
RecInit ==
    /\ num_devices \in DeviceCounts
    /\ cs = "high"
    /\ fn = "none"
    /\ pc = "idle"
    /\ half = 0
    /\ i = 0
    /\ row = 0
    /\ args = NoArgs
    /\ trace = <<>>
    /\ result = "none"
    /\ sinceLatch = 0
    /\ faults = MaxFaults - 1
    /\ observe = TRUE
    /\ shiftreg = ZeroBytes(2 * num_devices)
    /\ latched = ZeroBytes(2 * num_devices)
    /\ prev = NoPrev
    /\ matrix0 = ZeroMatrix /\ matrix = ZeroMatrix /\ turns = 0

RecNext ==
    \/ Idle /\ \E d \in DataBytes : Call_write_command_all("Intensity", d)
    \/ Idle /\ \E d \in DataBytes : Call_write_raw_all(12, d)
    \/ write_raw_all_set_low
    \/ write_raw_all_shift_out
    \/ write_raw_all_set_high
    \/ Idle /\ Call_clear_all
    \/ clear_all_set_low
    \/ clear_all_shift_out
    \/ clear_all_set_high
    \/ Idle /\ \E p \in SeqsUpTo(PayloadBytes, MaxDevices) : Call_write_line_raw(2, p)
    \/ write_line_raw_set_low
    \/ write_line_raw_shift_out
    \/ write_line_raw_set_high
    \/ Idle /\ \E x \in DeviceIndexes : Call_write_device_raw(x, 5, 129)
    \/ write_device_raw_set_low
    \/ write_device_raw_skip_after
    \/ write_device_raw_write
    \/ write_device_raw_skip_before
    \/ write_device_raw_set_high
    \/ Idle /\ Call_write_str_at_pos(<<65>>, 3)
    \/ write_str_at_pos_set_low
    \/ write_str_at_pos_shift_out
    \/ write_str_at_pos_set_high
    \/ Cancel
    \/ TakeResult

RecoverySpec == RecInit /\ [][RecNext]_vars

\* ------------------------------------------------------------- claims ----
\* the last call was `op` and it returned `r`
Returned(op, r) == fn = "none" /\ args.op = op /\ result = r

\* the events of one frame: select low, the bytes of the (register, data)
\* pairs in order, select high
FrameOf(pairs) ==
    <<Low>>
    \o [k \in 1..(2 * Len(pairs)) |-> Byte(pairs[(k + 1) \div 2][2 - (k % 2)])]
    \o <<High>>

RECURSIVE Flatten(_)
Flatten(ss) == IF ss = <<>> THEN <<>> ELSE Head(ss) \o Flatten(Tail(ss))

Pads(n) == [k \in 1..n |-> <<0, 0>>]

\* the (register, data) pair number p of a one-frame trace
PairAt(tr, p) == <<tr[2 * p].v, tr[2 * p + 1].v>>

\* C1: a successful write_line_raw(line_index, payload) emits exactly: select
\* low, then for each payload byte in order the byte line_index + 1 followed
\* by the payload byte, then select high.
C1_WriteLineFrame ==
    Returned("write_line_raw", "Ok") =>
        /\ args.line_index \in 0..7
        /\ Len(args.payload) = num_devices
        /\ trace = FrameOf([k \in 1..num_devices |->
                               <<args.line_index + 1, args.payload[k]>>])

C1_Witness ==
    /\ Returned("write_line_raw", "Ok")
    /\ num_devices = 2 /\ args.line_index = 3 /\ args.payload = <<170, 85>>
    /\ trace = <<Low, Byte(4), Byte(170), Byte(4), Byte(85), High>>

\* C2: when a transfer fails after the call asserted select, select is
\* deasserted by the time the call returns its Spi error.
C2_SelectReleasedOnSpiError ==
    (fn = "none" /\ result = "Spi" /\ \E k \in 1..Len(trace) : trace[k] = Low)
        => cs = "high"

\* C3: a successful write_device_raw with device_index < num_devices sends one
\* frame of exactly 2 * num_devices bytes: one pair is (register, data), each
\* of the others is (0, 0).
C3_WriteDeviceLength ==
    (Returned("write_device_raw", "Ok") /\ args.device_index < num_devices) =>
        /\ Len(trace) = 2 * num_devices + 2
        /\ trace[1] = Low
        /\ trace[Len(trace)] = High
        /\ \A k \in 2..(Len(trace) - 1) : trace[k].ev = "spi"
        /\ \E p \in 1..num_devices :
              /\ PairAt(trace, p) = <<args.register, args.data>>
              /\ \A q \in (1..num_devices) \ {p} : PairAt(trace, q) = <<0, 0>>

C3_Witness ==
    /\ Returned("write_device_raw", "Ok")
    /\ num_devices = 2 /\ args.device_index = 0
    /\ args.register = 12 /\ args.data = 129
    /\ Len(trace) = 6

\* C4: in that frame the requested pair comes after num_devices - 1 -
\* device_index padding pairs and before device_index padding pairs.
C4_WriteDeviceOrder ==
    (Returned("write_device_raw", "Ok") /\ args.device_index < num_devices) =>
        trace = FrameOf(Pads(num_devices - 1 - args.device_index)
                        \o << <<args.register, args.data>> >>
                        \o Pads(args.device_index))

C4_Witness ==
    /\ Returned("write_device_raw", "Ok")
    /\ num_devices = 2 /\ args.device_index = 1
    /\ args.register = 4 /\ args.data = 129
    /\ trace = <<Low, Byte(4), Byte(129), Byte(0), Byte(0), High>>

\* C5: write_line_raw with line_index >= 8 returns InvalidLineIndex at once:
\* no pin event, no byte, and the pin and the chain are left as they were.
C5_InvalidLineIndex ==
    [][(Idle /\ args'.op = "write_line_raw" /\ args'.line_index >= 8) =>
           /\ fn' = "none"
           /\ result' = "InvalidLineIndex"
           /\ trace' = <<>>
           /\ cs' = cs
           /\ sinceLatch' = sinceLatch]_vars

C5_Witness ==
    /\ Returned("write_line_raw", "InvalidLineIndex")
    /\ args.line_index = 8
    /\ Len(args.payload) = num_devices
    /\ trace = <<>>

\* C6: write_line_raw with line_index in 0..7 and a payload whose length is
\* not num_devices returns InvalidPayloadLength at once: no pin event, no
\* byte, and the pin and the chain are left as they were.
C6_InvalidPayloadLength ==
    [][(/\ Idle
        /\ args'.op = "write_line_raw"
        /\ args'.line_index \in 0..7
        /\ Len(args'.payload) # num_devices) =>
           /\ fn' = "none"
           /\ result' = "InvalidPayloadLength"
           /\ trace' = <<>>
           /\ cs' = cs
           /\ sinceLatch' = sinceLatch]_vars

C6_Witness ==
    /\ Returned("write_line_raw", "InvalidPayloadLength")
    /\ args.line_index = 7
    /\ Len(args.payload) = num_devices + 1
    /\ trace = <<>>

\* C7: every deassertion of select latches exactly 2 * num_devices bytes
\* transferred since the previous deassertion.  (Stated for the calls that
\* respect device_index < num_devices.)
C7_LatchedFrameLength ==
    [][(/\ trace' = Append(trace, High)
        /\ ~(args.op = "write_device_raw" /\ args.device_index >= num_devices))
           => sinceLatch = 2 * num_devices]_vars

\* C8: a call abandoned while suspended in a transfer leaves select
\* deasserted.
C8_SelectReleasedOnCancel ==
    (fn = "none" /\ result = "cancelled") => cs = "high"

\* C9: a successful write_str_at_pos(s, 0) emits 8 frames, rows 0..7 in order;
\* the frame of row r holds for each chip d = 0..num_devices-1 the pair
\* (r + 1, row r of the glyph of s[num_devices-1-d]), the blank glyph's row
\* when num_devices-1-d is not below the length of s.
ExpectedGlyphRow(s, idx, r) ==
    IF idx < Len(s) THEN CP437FONT(s[idx + 1])[r + 1] ELSE CP437FONT(0)[r + 1]

C9_TextAtZero ==
    (Returned("write_str_at_pos", "Ok") /\ args.x_pos = 0) =>
        trace = Flatten([r \in 1..8 |->
                    FrameOf([d \in 1..num_devices |->
                        <<r, ExpectedGlyphRow(args.s, num_devices - d, r - 1)>>])])

C9_Witness ==
    /\ Returned("write_str_at_pos", "Ok")
    /\ args.x_pos = 0 /\ num_devices = 2 /\ args.s = <<65>>
    /\ Len(trace) = 48
    /\ trace[2] = Byte(1) /\ trace[3] = Byte(0)
    /\ trace[4] = Byte(1) /\ trace[5] = Byte(129)

\* C10: a successful clear_all emits 8 frames, registers 1..8 in ascending
\* order, each num_devices pairs (register, 0): no control register and no
\* no-op pair.
C10_ClearFrames ==
    Returned("clear_all", "Ok") =>
        trace = Flatten([r \in 1..8 |->
                    FrameOf([d \in 1..num_devices |-> <<r, 0>>])])

C10_Witness ==
    /\ Returned("clear_all", "Ok")
    /\ num_devices = 2
    /\ Len(trace) = 48
    /\ trace[43] = Low /\ trace[44] = Byte(8) /\ trace[45] = Byte(0)

\* the register map of the data sheet: Noop 0x00, Row0..Row7 0x01..0x08,
\* DecodeMode 0x09, Intensity 0x0A, ScanLimit 0x0B, OnOff 0x0C,
\* DisplayTest 0x0F
RegisterCode(c) ==
    CASE c = "Noop" -> 0
      [] c = "Digit0" -> 1 [] c = "Digit1" -> 2 [] c = "Digit2" -> 3
      [] c = "Digit3" -> 4 [] c = "Digit4" -> 5 [] c = "Digit5" -> 6
      [] c = "Digit6" -> 7 [] c = "Digit7" -> 8
      [] c = "DecodeMode" -> 9
      [] c = "Intensity" -> 10
      [] c = "ScanLimit" -> 11
      [] c = "OnOff" -> 12
      [] c = "DisplayTest" -> 15

\* one frame of n identical pairs
BroadcastFrame(n, register, data) ==
    FrameOf([k \in 1..n |-> <<register, data>>])

\* C11: a successful write_command_all(command, data) emits one frame of
\* num_devices pairs (code(command), data), and a successful
\* write_raw_all(register, data) one frame of num_devices pairs
\* (register, data): the two emit the same events when register =
\* code(command).
C11_CommandIsRaw ==
    /\ Returned("write_command_all", "Ok") =>
           trace = BroadcastFrame(num_devices, RegisterCode(args.command),
                                  args.data)
    /\ Returned("write_raw_all", "Ok") =>
           trace = BroadcastFrame(num_devices, args.register, args.data)

C11_Witness ==
    /\ Returned("write_command_all", "Ok")
    /\ args.command = "DisplayTest" /\ args.data = 129 /\ num_devices = 2
    /\ trace = <<Low, Byte(15), Byte(129), Byte(15), Byte(129), High>>

\* bitwise OR of two bytes
RECURSIVE OrN(_, _, _)
OrN(a, b, n) ==
    IF n = 0 THEN 0
    ELSE (IF (a % 2) + (b % 2) > 0 THEN 1 ELSE 0)
         + 2 * OrN(a \div 2, b \div 2, n - 1)

\* the signed remainder of x by 8, in -7..7, with the sign of x
SignedRem8(x) == IF x >= 0 THEN x % 8 ELSE 0 - ((0 - x) % 8)

\* the character offset that goes with it: x = 8 * CharBase(x) + SignedRem8(x)
CharBase(x) == (x - SignedRem8(x)) \div 8

\* row r of the glyph of s[idx]; all zero outside the string
GlyphRowOrBlank(s, idx, r) ==
    IF idx >= 0 /\ idx < Len(s) THEN CP437FONT(s[idx + 1])[r + 1] ELSE 0

\* the composition formula for chip d and row r
ComposedByte(n, s, x, d, r) ==
    LET shift  == SignedRem8(x)
        idx    == n - d - 1 - CharBase(x)
        left   == GlyphRowOrBlank(s, idx - 1, r)
        middle == GlyphRowOrBlank(s, idx, r)
        right  == GlyphRowOrBlank(s, idx + 1, r)
    IN  IF shift = 0 THEN middle
        ELSE IF shift < 0
        THEN OrN(middle \div (2 ^ (0 - shift)),
                 (right * (2 ^ (8 + shift))) % 256, 8)
        ELSE OrN((middle * (2 ^ shift)) % 256,
                 left \div (2 ^ (8 - shift)), 8)

\* C14: every data byte a successful write_str_at_pos(s, x_pos) transmits, for
\* chip d and row r, is the composition formula's byte (OR of the shifted
\* middle glyph row and the neighbour's row, blank outside the string); the
\* code's shortcut of sending 0 for string_index < 0 or > length never differs.
C14_ComposedBytes ==
    Returned("write_str_at_pos", "Ok") =>
        trace = Flatten([r \in 1..8 |->
                    FrameOf([d \in 1..num_devices |->
                        <<r, ComposedByte(num_devices, args.s, args.x_pos,
                                          d - 1, r - 1)>>])])

C14_Witness ==
    /\ Returned("write_str_at_pos", "Ok")
    /\ num_devices = 2 /\ args.s = <<65, 66>> /\ args.x_pos = 9
    /\ Len(trace) = 48
    /\ trace[3] = Byte(2) /\ trace[5] = Byte(0)

\* the data byte of chip d in the frame of row r, in the trace of a
\* successful write_str_at_pos
DataByte(tr, n, d, r) == tr[r * (2 * n + 2) + 2 * d + 3].v

\* W: the 8n-bit word of row r, chip 0 most significant
RECURSIVE RowWord(_, _, _, _)
RowWord(tr, n, r, d) ==
    IF d = n THEN 0
    ELSE DataByte(tr, n, d, r) * (256 ^ (n - 1 - d)) + RowWord(tr, n, r, d + 1)

\* T: the text's row r as a number, character k weighing 256^k
RECURSIVE TextWord(_, _, _)
TextWord(s, r, k) ==
    IF k >= Len(s) THEN 0
    ELSE CP437FONT(s[k + 1])[r + 1] * (256 ^ k) + TextWord(s, r, k + 1)

\* floor(t * 2^x) mod 2^w, computed without leaving 0..2^w
ScaledMod(t, x, w) ==
    IF x >= 0
    THEN IF x >= w THEN 0 ELSE (t % (2 ^ (w - x))) * (2 ^ x)
    ELSE (t \div (2 ^ (0 - x))) % (2 ^ w)

\* C15: for every row r of a successful write_str_at_pos(s, x_pos) the word W
\* of the row's data bytes is floor(T * 2^x_pos) mod 2^(8 * num_devices): the
\* picture moves by one pixel per unit of x_pos, across chips and characters.
C15_ContinuousScroll ==
    Returned("write_str_at_pos", "Ok") =>
        \A r \in 0..7 :
            RowWord(trace, num_devices, r, 0)
                = ScaledMod(TextWord(args.s, r, 0), args.x_pos, 8 * num_devices)

C15_Witness ==
    /\ Returned("write_str_at_pos", "Ok")
    /\ num_devices = 2 /\ args.s = <<65, 66>> /\ args.x_pos = 0 - 3
    /\ RowWord(trace, 2, 0, 0) = 8176

\* C16 as claimed: shift is the signed remainder of x_pos by 8 and char_base
\* is floor(x_pos / 8), for every x_pos.
C16_FloorDecomposition ==
    fn = "write_str_at_pos" =>
        /\ shift_by_bits(args.x_pos) = SignedRem8(args.x_pos)
        /\ start_string_index(args.x_pos) = args.x_pos \div 8

\* C16 as amended: shift is the signed remainder of x_pos by 8, in -7..7, and
\* char_base is x_pos / 8 rounded toward zero - floor(x_pos / 8) when x_pos >= 0
\* or x_pos is a multiple of 8, floor(x_pos / 8) + 1 otherwise - so that
\* x_pos = 8 * char_base + shift.
C16_TruncatedDecomposition ==
    fn = "write_str_at_pos" =>
        LET x     == args.x_pos
            shift == shift_by_bits(x)
            base  == start_string_index(x)
        IN  /\ shift \in (0 - 7)..7
            /\ shift = SignedRem8(x)
            /\ base = IF x >= 0 \/ x % 8 = 0 THEN x \div 8 ELSE (x \div 8) + 1
            /\ x = 8 * base + shift

C16_Witness ==
    /\ fn = "write_str_at_pos" /\ pc = "loop"
    /\ args.x_pos = 0 - 9
    /\ start_string_index(args.x_pos) = 0 - 1
    /\ shift_by_bits(args.x_pos) = 0 - 1

FullTrace(n, a) ==
    CASE a.op = "write_command_all" ->
             BroadcastFrame(n, RegisterCode(a.command), a.data)
      [] a.op = "write_raw_all" -> BroadcastFrame(n, a.register, a.data)
      [] a.op = "clear_all" ->
             Flatten([r \in 1..8 |-> BroadcastFrame(n, r, 0)])
      [] a.op = "write_line_raw" ->
             FrameOf([k \in 1..Len(a.payload) |->
                         <<a.line_index + 1, a.payload[k]>>])
      [] a.op = "write_device_raw" ->
             FrameOf(Pads(IF a.device_index < n THEN n - 1 - a.device_index
                          ELSE 0)
                     \o << <<a.register, a.data>> >>
                     \o Pads(a.device_index))
      [] a.op = "write_str_at_pos" ->
             Flatten([r \in 1..8 |->
                 FrameOf([d \in 1..n |->
                     <<r, ComposedByte(n, a.s, a.x_pos, d - 1, r - 1)>>])])
      [] OTHER -> <<>>

\* t stops in front of a byte of e
StopsBeforeByte(t, e) ==
    /\ Len(t) < Len(e)
    /\ \A k \in 1..Len(t) : t[k] = e[k]
    /\ e[Len(t) + 1].ev = "spi"

\* C18: when a transfer fails the call returns the Spi error in that step:
\* the bytes sent are exactly those before the failed one, in the order of
\* the complete call; nothing is sent again or afterwards and no further
\* frame is started.
C18_FailStopsAtOnce ==
    [][/\ (Suspended /\ faults' # faults /\ result' # "cancelled") =>
              /\ fn' = "none"
              /\ result' = "Spi"
              /\ trace' = trace
              /\ sinceLatch' = sinceLatch
              /\ StopsBeforeByte(trace, FullTrace(num_devices, args))
       /\ (fn = "none" /\ result = "Spi") =>
              /\ trace' = <<>>
              /\ cs' = cs
              /\ sinceLatch' = sinceLatch]_vars

C18_Witness ==
    /\ Returned("clear_all", "Spi")
    /\ num_devices = 1
    /\ trace = <<Low, Byte(1), Byte(0), High, Low, Byte(2)>>

\* C19: write_device_raw does not validate device_index: with device_index >=
\* num_devices it returns no validation error and a successful call sends
\* one frame holding the requested pair followed by device_index pairs
\* (0, 0), more than 2 * num_devices bytes.
C19_DeviceIndexUnchecked ==
    /\ args.op = "write_device_raw" =>
           result \notin {"InvalidLineIndex", "InvalidPayloadLength"}
    /\ (Returned("write_device_raw", "Ok")
            /\ args.device_index >= num_devices) =>
           /\ trace = FrameOf(<< <<args.register, args.data>> >>
                              \o Pads(args.device_index))
           /\ Len(trace) - 2 = 2 * (args.device_index + 1)
           /\ Len(trace) - 2 > 2 * num_devices

C19_Witness ==
    /\ Returned("write_device_raw", "Ok")
    /\ num_devices = 1 /\ args.device_index = 2
    /\ args.register = 12 /\ args.data = 129
    /\ trace = <<Low, Byte(12), Byte(129), Byte(0), Byte(0), Byte(0), Byte(0),
                 High>>

\* bit n of byte b
BitOf(b, n) == (b \div (2 ^ n)) % 2 = 1

SetBits(m) == {p \in (0..7) \X (0..7) : BitOf(m[p[1] + 1], p[2])}

\* C12: rotate_90_clockwise applied four times returns the matrix it started
\* from.
C12_FourTurns == turns = 4 => matrix = matrix0

C12_Witness ==
    /\ turns = 4
    /\ matrix0 = <<0, 0, 4, 0, 0, 0, 0, 0>>
    /\ matrix = matrix0

\* C13: after one application bit i of output row 7 - j is set exactly when
\* bit j of input row i is set, so the number of set bits is kept; the zero
\* matrix gives the zero matrix and the matrix with only (row 0, column 0)
\* set gives the one with only (row 7, column 0) set.
C13_RotateBits ==
    turns = 1 =>
        /\ \A ii \in 0..7, j \in 0..7 :
              BitOf(matrix[(7 - j) + 1], ii) <=> BitOf(matrix0[ii + 1], j)
        /\ \A r \in 1..8 : matrix[r] \in 0..255
        /\ Cardinality(SetBits(matrix)) = Cardinality(SetBits(matrix0))
        /\ (matrix0 = ZeroMatrix => matrix = ZeroMatrix)
        /\ (matrix0 = <<1, 0, 0, 0, 0, 0, 0, 0>>
                => matrix = <<0, 0, 0, 0, 0, 0, 0, 1>>)

C13_Witness ==
    /\ turns = 1
    /\ matrix0 = <<1, 0, 0, 0, 0, 0, 0, 0>>
    /\ matrix = <<0, 0, 0, 0, 0, 0, 0, 1>>

\* the bytes of a trace, in the order they were transferred
RECURSIVE BytesOf(_)
BytesOf(tr) ==
    IF tr = <<>> THEN <<>>
    ELSE IF Head(tr).ev = "spi" THEN <<Head(tr).v>> \o BytesOf(Tail(tr))
    ELSE BytesOf(Tail(tr))

LastBytes(s, n) == SubSeq(s, Len(s) - n + 1, Len(s))

\* what a chain that has received nothing but `bytes` holds
CleanLatch(bytes) ==
    LastBytes(ZeroBytes(2 * num_devices) \o bytes, 2 * num_devices)

SingleFrameOk ==
    /\ fn = "none" /\ result = "Ok"
    /\ \/ args.op \in {"write_line_raw", "write_command_all", "write_raw_all"}
       \/ args.op = "write_device_raw" /\ args.device_index < num_devices

\* C20: with the chain a 2 * num_devices byte shift register latched at each
\* rising edge of select, a successful write_line_raw, write_device_raw
\* (device_index < num_devices), write_command_all or write_raw_all leaves
\* latched what the same call latches on a chain that has seen nothing else,
\* whatever came before it, a call that failed in mid-frame included: its
\* frame is exactly 2 * num_devices bytes and replaces the whole register.
C20_RecoveryAfterFailedFrame ==
    (observe /\ SingleFrameOk) =>
        /\ Len(BytesOf(trace)) = 2 * num_devices
        /\ latched = BytesOf(trace)
        /\ latched = CleanLatch(BytesOf(trace))

C20_Witness ==
    /\ observe /\ SingleFrameOk
    /\ prev.result = "Spi" /\ prev.bytes = 1
    /\ num_devices = 2
    /\ args.op = "write_line_raw"
    /\ latched = <<3, 170, 3, 85>>
=============================================================================
